---- MODULE Spec2Model ----
(***************************************************************************)
(* Crawl orchestration of src/crawler.py: main (the aggregator), the       *)
(* worker processes, the url_queue / result_queue protocol, the stop       *)
(* requests and the checkpoint writer save_books.                          *)
(*                                                                         *)
(* An item URL is identified by its position in book_urls (1..N), so two   *)
(* equal URLs found on different listing pages stay two work items.  A     *)
(* Record is modelled by its 'url' field.  Time is abstracted: a get with  *)
(* a timeout either receives what the pipe holds or, when the pipe holds   *)
(* nothing, may raise queue.Empty; join(timeout=5) always returns.         *)
(***************************************************************************)
EXTENDS Integers, Sequences, FiniteSets, TLC

\* ---------------------------------------------------------------- bounds
MaxURLs == 3        \* Spec: book_urls has 0..MaxURLs entries
MaxWorkers == 2     \* Spec: num_workers is 1..MaxWorkers (the code: 1..4)
MaxURLsK == 41      \* SpecK (one worker): book_urls has 2*K..MaxURLsK entries
FailTailK == 1      \* SpecK: only the last FailTailK item fetches may fail
MaxPages == 2       \* SpecUrls: total_pages is 1..MaxPages
MaxPods == 2        \* SpecUrls: a listing page has 0..MaxPods product containers
MaxText == 3        \* SpecScrape: an element's text has 0..MaxText characters

\* ------------------------------------------------------ program constants
K == 20             \* auto-save interval, crawler.py line 323

VARIABLES
    main_pc,            \* position of main
    book_urls,          \* result of get_book_urls
    num_workers,        \* min(4, mp.cpu_count())
    failable,           \* environment: the item URLs whose fetch or parse may fail
    url_buf,            \* url_queue: items put, not yet written to the pipe
    url_pipe,           \* url_queue: items a worker's get can receive
    result_queue,       \* result_queue: outcomes the aggregator can receive
    wpc,                \* worker -> "get" | "scrape" | "exited"
    wurl,               \* worker -> the URL it holds (None when it holds none)
    wexit,              \* worker -> why it left its loop
    all_books,          \* accumulated Records
    crawled_count,
    failed_count,
    total_crawl_count,
    loop_exit,          \* how the aggregation loop ended
    printed,            \* console lines that tell runs apart
    file,               \* the output file
    save_calls,         \* number of save_books invocations so far
    save_arg,           \* the 'books' argument of the last invocation
    pulled,             \* the outcomes main received, in the order received
    produced,           \* item URL -> outcomes put on result_queue for it
    sentinels_got,      \* worker -> stop requests it dequeued
    listing,            \* the site's listing pages, page 1 first
    page,               \* get_book_urls: the listing page visited next
    doc,                \* the item page a scrape_book call is given
    scraped             \* what that scrape_book call returned

vars == <<main_pc, book_urls, num_workers, failable, url_buf, url_pipe,
          result_queue, wpc, wurl, wexit, all_books, crawled_count,
          failed_count, total_crawl_count, loop_exit, printed, file,
          save_calls, save_arg, pulled, produced, sentinels_got, listing, page,
          doc, scraped>>

main_vars == <<main_pc, all_books, crawled_count, failed_count,
               total_crawl_count, loop_exit, printed, file, save_calls,
               save_arg, pulled>>
worker_vars == <<wpc, wurl, wexit, produced, sentinels_got>>
collect_vars == <<listing, page>>
\* what the crawl (Dispatch and everything after it) never changes
scrape_vars == <<doc, scraped>>
env_vars == <<book_urls, num_workers, failable, collect_vars, scrape_vars>>

\* ------------------------------------------------------------- helpers
Workers == 1..num_workers

\* Python's None: the stop request on url_queue, a failed scrape on result_queue
None == [none |-> TRUE]

\* The item URL found at position i of book_urls
ItemURL(i) == [item |-> i]

Record(u) == [url |-> u]

Repeat(x, n) == [i \in 1..n |-> x]

NoFile == [exists |-> FALSE, complete |-> FALSE, books |-> <<>>]

MsgTimeout == "Timeout waiting for results"
MsgComplete == "Crawling complete"
MsgSuccess == "Process completed successfully!"

\* scrape_book: a dict on success, None on a non-200 answer or any exception
scrape_book(u, ok) == IF ok THEN Record(u) ELSE None

\* What one call of save_books can do: write everything, fail in open()
\* (nothing touched), or fail in json.dump after open() truncated the file.
SaveOutcomes == {"ok", "open_error", "write_error"}

SaveRaises(outcome) == outcome # "ok"

\* The file after save_books(books, filename).  'books' is what json.load
\* gives back: nothing from a file cut short.
save_books(books, f, outcome) ==
    CASE outcome = "ok" -> [exists |-> TRUE, complete |-> TRUE, books |-> books]
      [] outcome = "open_error" -> f
      [] OTHER -> [exists |-> TRUE, complete |-> FALSE, books |-> <<>>]

\* main, line 306: the aggregation loop goes on
LoopCondition(crawled, failed, total) == crawled + failed < total

\* Mutant of Tally: a failed scrape is counted twice
Tally_FailedTwice(result, books, crawled, failed) ==
    IF result # None
    THEN [books |-> Append(books, result), crawled |-> crawled + 1, failed |-> failed]
    ELSE [books |-> books, crawled |-> crawled, failed |-> failed + 2]

\* Mutant of Tally: a failed scrape leaves its None in the list
Tally_AppendsFailure(result, books, crawled, failed) ==
    IF result # None
    THEN [books |-> Append(books, result), crawled |-> crawled + 1, failed |-> failed]
    ELSE [books |-> Append(books, result), crawled |-> crawled, failed |-> failed + 1]

\* Mutant of Tally: the new record is put at the front of the list
Tally_Prepends(result, books, crawled, failed) ==
    IF result # None
    THEN [books |-> <<result>> \o books, crawled |-> crawled + 1, failed |-> failed]
    ELSE [books |-> books, crawled |-> crawled, failed |-> failed + 1]

\* main, lines 311-315: a dict is appended and counted as crawled, None is
\* counted as failed
Tally(result, books, crawled, failed) ==
    IF result # None
    THEN [books |-> Append(books, result), crawled |-> crawled + 1, failed |-> failed]
    ELSE [books |-> books, crawled |-> crawled, failed |-> failed + 1]

\* Mutant of AutoSaveDue: the test crawled_count > 0 is left out
AutoSaveDue_ZeroIncluded(crawled) == crawled % K = 0

\* main, line 323: auto-save condition, evaluated after every result
AutoSaveDue(crawled) == crawled % K = 0 /\ crawled > 0

\* Mutant of CheckpointArg: only the records since the last auto-save
CheckpointArg_LastK(books) ==
    IF Len(books) <= K THEN books ELSE SubSeq(books, Len(books) - K + 1, Len(books))

\* main, line 324: the auto-save is given the whole list
CheckpointArg(books) == books

\* --------------------------------------------------- scrape_book
\* A text is a sequence of one-character strings.
Digits == <<"0", "1", "2", "3", "4", "5", "6", "7", "8", "9">>

IsDigit(c) == \E i \in DOMAIN Digits : Digits[i] = c

DigitVal(c) == (CHOOSE i \in DOMAIN Digits : Digits[i] = c) - 1

\* The number written by a sequence of digits (0 for none)
RECURSIVE DigitsVal(_)
DigitsVal(t) ==
    IF t = <<>> THEN 0
    ELSE 10 * DigitsVal(SubSeq(t, 1, Len(t) - 1)) + DigitVal(t[Len(t)])

ValueError == [raises |-> "ValueError"]

\* A float read from digits and points: units / 10^scale
Decimal(units, scale) == [units |-> units, scale |-> scale]

Zero == Decimal(0, 0)

\* clean_price, lines 25-28: keep the digits and the points
Cleaned(price_text) == SelectSeq(price_text, LAMBDA c : IsDigit(c) \/ c = ".")

\* float(s) for a string of digits and points: at most one point and at
\* least one digit, else ValueError
float(s) ==
    LET points == {i \in DOMAIN s : s[i] = "."}
        digits == SelectSeq(s, IsDigit)
    IN  IF Cardinality(points) > 1 \/ digits = <<>> THEN ValueError
        ELSE Decimal(DigitsVal(digits),
                     IF points = {} THEN 0 ELSE Len(s) - (CHOOSE i \in points : TRUE))

\* clean_price, line 29
clean_price(price_text) ==
    LET clean == Cleaned(price_text)
    IN  IF clean # <<>> THEN float(clean) ELSE Zero

\* str.strip() for the one whitespace character of the texts
RECURSIVE StripLeft(_)
StripLeft(t) == IF t # <<>> /\ Head(t) = " " THEN StripLeft(Tail(t)) ELSE t

RECURSIVE StripRight(_)
StripRight(t) ==
    IF t # <<>> /\ t[Len(t)] = " " THEN StripRight(SubSeq(t, 1, Len(t) - 1)) ELSE t

strip(t) == StripRight(StripLeft(t))

\* An int that int() returned
IntValue(n) == [int |-> n]

\* int(s) for a stripped string: an optional sign, then digits only
int(s) ==
    LET signed == s # <<>> /\ Head(s) \in {"-", "+"}
        body == IF signed THEN Tail(s) ELSE s
    IN  IF body = <<>> \/ \E i \in DOMAIN body : ~IsDigit(body[i]) THEN ValueError
        ELSE IntValue(IF signed /\ Head(s) = "-" THEN 0 - DigitsVal(body)
                                                       ELSE DigitsVal(body))

\* An element of the page: absent, or present with its text
Absent == [present |-> FALSE, text |-> <<>>]

Elem(t) == [present |-> TRUE, text |-> t]

\* The item page: whether the answer was a 200, its price_color element
\* and the value cell of its review-count row
ItemPage(ok, price, reviews) == [ok |-> ok, price |-> price, reviews |-> reviews]

NoDoc == [none |-> TRUE]

NotScraped == [pending |-> TRUE]

\* scrape_book, lines 94-97
ReviewCount(cell) ==
    IF ~cell.present THEN 0
    ELSE LET n == int(strip(cell.text)) IN IF n = ValueError THEN 0 ELSE n.int

\* scrape_book, lines 43-121, for the price and the review count: None on
\* a non-200 answer and on any exception, else the dict
scrape_book_page(book_url, d) ==
    IF ~d.ok THEN None
    ELSE LET price == IF d.price.present THEN clean_price(d.price.text) ELSE Zero
         IN  IF price = ValueError THEN None
             ELSE [url |-> book_url, price |-> price, reviews |-> ReviewCount(d.reviews)]

\* ------------------------------------------------- get_book_urls
\* A URL is the sequence of its path segments below the site root.
\* get_book_urls, lines 177-180: page 1 is base_url itself, page n is
\* catalogue/page-n.html
PageUrl(n) == IF n = 1 THEN <<>> ELSE <<"catalogue", n>>

\* urljoin(page_url, link) for a relative link without '..': the link
\* replaces the last segment of the page's path
urljoin(page_url, link) ==
    (IF page_url = <<>> THEN <<>> ELSE SubSeq(page_url, 1, Len(page_url) - 1)) \o link

\* A product container whose h3/a/href is missing: line 196 raises
BrokenPod == [broken |-> TRUE]

Pod(link) == [href |-> link]

\* A listing page as requests.get and BeautifulSoup deliver it: the fetch
\* raises, or the page has its product containers in document order
FetchError == [fetch_error |-> TRUE]

ListingPage(pods) == [pods |-> pods]

\* The product containers read before the first one that raises
RECURSIVE ReadablePods(_)
ReadablePods(pods) ==
    IF pods = <<>> \/ Head(pods) = BrokenPod THEN <<>>
    ELSE <<Head(pods)>> \o ReadablePods(Tail(pods))

\* get_book_urls, lines 184-204, one pass of the loop body: what page n
\* appends to book_urls before the try block ends or is left by an exception
PageBookUrls(n, content) ==
    IF content = FetchError THEN <<>>
    ELSE LET pods == ReadablePods(content.pods)
         IN  [i \in DOMAIN pods |-> urljoin(PageUrl(n), pods[i].href)]

\* ------------------------------------------------------------------ Init
\* the first H and the last T URLs are the ones whose scrape can fail
InitFailing(N, W, H, T) ==
    /\ main_pc = "dispatch"
    /\ book_urls \in {[i \in 1..n |-> ItemURL(i)] : n \in N}
    /\ num_workers \in W
    /\ failable = {i \in DOMAIN book_urls : i <= H \/ i > Len(book_urls) - T}
    /\ url_buf = <<>>
    /\ url_pipe = <<>>
    /\ result_queue = <<>>
    /\ wpc = <<>>
    /\ wurl = <<>>
    /\ wexit = <<>>
    /\ all_books = <<>>
    /\ crawled_count = 0
    /\ failed_count = 0
    /\ total_crawl_count = 0
    /\ loop_exit = "running"
    /\ printed = {}
    /\ file = NoFile
    /\ save_calls = 0
    /\ save_arg = <<>>
    /\ pulled = <<>>
    /\ produced = [i \in DOMAIN book_urls |-> 0]
    /\ sentinels_got = <<>>
    /\ listing = <<>>
    /\ page = 1
    /\ doc = NoDoc
    /\ scraped = NotScraped

InitWith(N, W, T) == InitFailing(N, W, 0, T)

Init == InitWith(0..MaxURLs, 1..MaxWorkers, MaxURLs)

InitK == InitWith((2 * K)..MaxURLsK, {1}, FailTailK)

\* 2K successes between a first URL and a last URL that can fail
InitKF == InitFailing({MaxURLsK + 1}, {1}, 1, FailTailK)

\* ------------------------------------------------------------------ main
\* Mutant of Dispatch: the stop requests are put before the URLs
Dispatch_SentinelsFirst ==
    /\ main_pc = "dispatch"
    /\ all_books' = <<>>
    /\ crawled_count' = 0
    /\ failed_count' = 0
    /\ url_buf' = Repeat(None, num_workers) \o book_urls
    /\ url_pipe' = <<>>
    /\ result_queue' = <<>>
    /\ wpc' = [w \in Workers |-> "get"]
    /\ wurl' = [w \in Workers |-> None]
    /\ wexit' = [w \in Workers |-> "running"]
    /\ sentinels_got' = [w \in Workers |-> 0]
    /\ total_crawl_count' = Len(book_urls)
    /\ main_pc' = "agg"
    /\ UNCHANGED <<env_vars, loop_exit, printed, file, save_calls, save_arg, pulled,
                   produced>>

\* main, lines 276-304: the counters, both queues, every URL then one stop
\* request per worker put on url_queue, the workers started.
Dispatch ==
    /\ main_pc = "dispatch"
    /\ all_books' = <<>>
    /\ crawled_count' = 0
    /\ failed_count' = 0
    /\ url_buf' = book_urls \o Repeat(None, num_workers)
    /\ url_pipe' = <<>>
    /\ result_queue' = <<>>
    /\ wpc' = [w \in Workers |-> "get"]
    /\ wurl' = [w \in Workers |-> None]
    /\ wexit' = [w \in Workers |-> "running"]
    /\ sentinels_got' = [w \in Workers |-> 0]
    /\ total_crawl_count' = Len(book_urls)
    /\ main_pc' = "agg"
    /\ UNCHANGED <<env_vars, loop_exit, printed, file, save_calls, save_arg, pulled,
                   produced>>

\* url_queue's feeder thread: the oldest buffered item reaches the pipe
Feed ==
    /\ url_buf # <<>>
    /\ url_pipe' = Append(url_pipe, Head(url_buf))
    /\ url_buf' = Tail(url_buf)
    /\ UNCHANGED <<env_vars, main_vars, worker_vars, result_queue>>

\* main, lines 306-329, one iteration that receives a result: count it,
\* then auto-save when crawled_count is a positive multiple of K.  An
\* exception of save_books is caught by the loop's except clause, which
\* prints the timeout line and breaks.
AggGet ==
    /\ main_pc = "agg"
    /\ LoopCondition(crawled_count, failed_count, total_crawl_count)
    /\ result_queue # <<>>
    /\ LET result == Head(result_queue)
           t == Tally(result, all_books, crawled_count, failed_count)
       IN  /\ result_queue' = Tail(result_queue)
           /\ pulled' = Append(pulled, result)
           /\ all_books' = t.books
           /\ crawled_count' = t.crawled
           /\ failed_count' = t.failed
           /\ IF AutoSaveDue(t.crawled)
              THEN \E outcome \in SaveOutcomes :
                     /\ file' = save_books(CheckpointArg(t.books), file, outcome)
                     /\ save_calls' = save_calls + 1
                     /\ save_arg' = CheckpointArg(t.books)
                     /\ IF SaveRaises(outcome)
                        THEN /\ printed' = printed \cup {MsgTimeout}
                             /\ loop_exit' = "save_error"
                             /\ main_pc' = "join"
                        ELSE UNCHANGED <<printed, loop_exit, main_pc>>
              ELSE UNCHANGED <<file, save_calls, save_arg, printed, loop_exit, main_pc>>
    /\ UNCHANGED <<env_vars, worker_vars, url_buf, url_pipe, total_crawl_count>>

\* main, lines 309 and 327-329: result_queue.get(timeout=30) raises Empty
AggTimeout ==
    /\ main_pc = "agg"
    /\ LoopCondition(crawled_count, failed_count, total_crawl_count)
    /\ result_queue = <<>>
    /\ printed' = printed \cup {MsgTimeout}
    /\ loop_exit' = "timeout"
    /\ main_pc' = "join"
    /\ UNCHANGED <<env_vars, worker_vars, url_buf, url_pipe, result_queue, all_books,
                   crawled_count, failed_count, total_crawl_count, file, save_calls,
                   save_arg, pulled>>

\* main, line 306: the loop condition is false
AggEnd ==
    /\ main_pc = "agg"
    /\ ~LoopCondition(crawled_count, failed_count, total_crawl_count)
    /\ loop_exit' = "normal"
    /\ main_pc' = "join"
    /\ UNCHANGED <<env_vars, worker_vars, url_buf, url_pipe, result_queue, all_books,
                   crawled_count, failed_count, total_crawl_count, printed, file,
                   save_calls, save_arg, pulled>>

\* Mutant of JoinWorkers: join() without a timeout waits for every worker
JoinWorkers_NoTimeout ==
    /\ main_pc = "join"
    /\ \A w \in DOMAIN wpc : wpc[w] = "exited"
    /\ main_pc' = "final"
    /\ UNCHANGED <<env_vars, worker_vars, url_buf, url_pipe, result_queue, all_books,
                   crawled_count, failed_count, total_crawl_count, loop_exit, printed,
                   file, save_calls, save_arg, pulled>>

\* main, lines 332-333: p.join(timeout=5) for each worker returns whether
\* or not the worker has exited
JoinWorkers ==
    /\ main_pc = "join"
    /\ main_pc' = "final"
    /\ UNCHANGED <<env_vars, worker_vars, url_buf, url_pipe, result_queue, all_books,
                   crawled_count, failed_count, total_crawl_count, loop_exit, printed,
                   file, save_calls, save_arg, pulled>>

\* Mutant of FinalSave: the final save is made only after a normal loop end
FinalSave_OnlyWhenComplete ==
    /\ main_pc = "final"
    /\ \E outcome \in SaveOutcomes :
         IF loop_exit = "normal"
         THEN /\ file' = save_books(all_books, file, outcome)
              /\ save_calls' = save_calls + 1
              /\ save_arg' = all_books
              /\ IF SaveRaises(outcome)
                 THEN /\ main_pc' = "raised"
                      /\ UNCHANGED printed
                 ELSE /\ main_pc' = "done"
                      /\ printed' = printed \cup {MsgComplete, MsgSuccess}
         ELSE /\ main_pc' = "done"
              /\ printed' = printed \cup {MsgComplete, MsgSuccess}
              /\ UNCHANGED <<file, save_calls, save_arg>>
    /\ UNCHANGED <<env_vars, worker_vars, url_buf, url_pipe, result_queue, all_books,
                   crawled_count, failed_count, total_crawl_count, loop_exit, pulled>>

\* main, lines 337-349: the final save_books, outside any try, then the
\* summary printed on every path that gets there
FinalSave ==
    /\ main_pc = "final"
    /\ \E outcome \in SaveOutcomes :
         /\ file' = save_books(all_books, file, outcome)
         /\ save_calls' = save_calls + 1
         /\ save_arg' = all_books
         /\ IF SaveRaises(outcome)
            THEN /\ main_pc' = "raised"
                 /\ UNCHANGED printed
            ELSE /\ main_pc' = "done"
                 /\ printed' = printed \cup {MsgComplete, MsgSuccess}
    /\ UNCHANGED <<env_vars, worker_vars, url_buf, url_pipe, result_queue, all_books,
                   crawled_count, failed_count, total_crawl_count, loop_exit, pulled>>

\* --------------------------------------------------------------- workers
\* worker_process, lines 140-147: get receives an item URL
WorkerGetItem(w) ==
    /\ w \in DOMAIN wpc
    /\ wpc[w] = "get"
    /\ url_pipe # <<>>
    /\ Head(url_pipe) # None
    /\ wurl' = [wurl EXCEPT ![w] = Head(url_pipe)]
    /\ wpc' = [wpc EXCEPT ![w] = "scrape"]
    /\ url_pipe' = Tail(url_pipe)
    /\ UNCHANGED <<env_vars, main_vars, url_buf, result_queue, wexit, produced,
                   sentinels_got>>

\* worker_process, lines 140-144: get receives a stop request
WorkerGetSentinel(w) ==
    /\ w \in DOMAIN wpc
    /\ wpc[w] = "get"
    /\ url_pipe # <<>>
    /\ Head(url_pipe) = None
    /\ url_pipe' = Tail(url_pipe)
    /\ wpc' = [wpc EXCEPT ![w] = "exited"]
    /\ wexit' = [wexit EXCEPT ![w] = "sentinel"]
    /\ sentinels_got' = [sentinels_got EXCEPT ![w] = @ + 1]
    /\ UNCHANGED <<env_vars, main_vars, url_buf, result_queue, wurl, produced>>

\* worker_process, lines 140 and 154-155: get(timeout=2) raises Empty,
\* caught by 'except Exception: break'
WorkerGetTimeout(w) ==
    /\ w \in DOMAIN wpc
    /\ wpc[w] = "get"
    /\ url_pipe = <<>>
    /\ wpc' = [wpc EXCEPT ![w] = "exited"]
    /\ wexit' = [wexit EXCEPT ![w] = "exception"]
    /\ UNCHANGED <<env_vars, main_vars, url_buf, url_pipe, result_queue, wurl, produced,
                   sentinels_got>>

\* Mutant of WorkerScrape: the 'else' is lost, None is put after every scrape
WorkerScrape_AlsoPutsNone(w) ==
    /\ w \in DOMAIN wpc
    /\ wpc[w] = "scrape"
    /\ \E ok \in BOOLEAN :
         /\ ok \/ wurl[w].item \in failable
         /\ LET result == scrape_book(wurl[w], ok)
            IN  /\ result_queue' =
                      IF result # None THEN result_queue \o <<result, None>>
                                       ELSE Append(result_queue, None)
                /\ produced' = [produced EXCEPT ![wurl[w].item] =
                                   IF result # None THEN @ + 2 ELSE @ + 1]
    /\ wurl' = [wurl EXCEPT ![w] = None]
    /\ wpc' = [wpc EXCEPT ![w] = "get"]
    /\ UNCHANGED <<env_vars, main_vars, url_buf, url_pipe, wexit, sentinels_got>>

\* Mutant of WorkerScrape: the worker counts its failed scrape itself, in a
\* counter shared with main
WorkerScrape_CountsFailure(w) ==
    /\ w \in DOMAIN wpc
    /\ wpc[w] = "scrape"
    /\ \E ok \in BOOLEAN :
         /\ ok \/ wurl[w].item \in failable
         /\ LET result == scrape_book(wurl[w], ok)
            IN  /\ result_queue' = Append(result_queue, IF result # None THEN result ELSE None)
                /\ failed_count' = IF result # None THEN failed_count ELSE failed_count + 1
    /\ produced' = [produced EXCEPT ![wurl[w].item] = @ + 1]
    /\ wurl' = [wurl EXCEPT ![w] = None]
    /\ wpc' = [wpc EXCEPT ![w] = "get"]
    /\ UNCHANGED <<env_vars, main_pc, all_books, crawled_count, total_crawl_count,
                   loop_exit, printed, file, save_calls, save_arg, pulled, url_buf,
                   url_pipe, wexit, sentinels_got>>

\* Mutant of WorkerScrape: a failed scrape puts nothing and ends the worker
WorkerScrape_FailureEndsWorker(w) ==
    /\ w \in DOMAIN wpc
    /\ wpc[w] = "scrape"
    /\ \E ok \in BOOLEAN :
         /\ ok \/ wurl[w].item \in failable
         /\ LET result == scrape_book(wurl[w], ok)
            IN  IF result # None
                THEN /\ result_queue' = Append(result_queue, result)
                     /\ produced' = [produced EXCEPT ![wurl[w].item] = @ + 1]
                     /\ wpc' = [wpc EXCEPT ![w] = "get"]
                     /\ UNCHANGED wexit
                ELSE /\ wpc' = [wpc EXCEPT ![w] = "exited"]
                     /\ wexit' = [wexit EXCEPT ![w] = "exception"]
                     /\ UNCHANGED <<result_queue, produced>>
    /\ wurl' = [wurl EXCEPT ![w] = None]
    /\ UNCHANGED <<env_vars, main_vars, url_buf, url_pipe, sentinels_got>>

\* worker_process, lines 147-152: scrape the URL, put the dict or None
WorkerScrape(w) ==
    /\ w \in DOMAIN wpc
    /\ wpc[w] = "scrape"
    /\ \E ok \in BOOLEAN :
         /\ ok \/ wurl[w].item \in failable
         /\ LET result == scrape_book(wurl[w], ok)
            IN  result_queue' = Append(result_queue, IF result # None THEN result ELSE None)
    /\ produced' = [produced EXCEPT ![wurl[w].item] = @ + 1]
    /\ wurl' = [wurl EXCEPT ![w] = None]
    /\ wpc' = [wpc EXCEPT ![w] = "get"]
    /\ UNCHANGED <<env_vars, main_vars, url_buf, url_pipe, wexit, sentinels_got>>

\* --------------------------------------------------- URL collection
Links == {<<"a", "index.html">>, <<"catalogue", "b", "index.html">>}

Pods == {BrokenPod} \cup {Pod(l) : l \in Links}

SeqsUpTo(S, n) == UNION {[1..k -> S] : k \in 0..n}

ListingPages == {FetchError} \cup {ListingPage(pods) : pods \in SeqsUpTo(Pods, MaxPods)}

\* No crawl under way: the queues, the workers and main's counters as
\* they are before Dispatch
CrawlIdle ==
    /\ num_workers = 1
    /\ failable = {}
    /\ url_buf = <<>>
    /\ url_pipe = <<>>
    /\ result_queue = <<>>
    /\ wpc = <<>>
    /\ wurl = <<>>
    /\ wexit = <<>>
    /\ all_books = <<>>
    /\ crawled_count = 0
    /\ failed_count = 0
    /\ total_crawl_count = 0
    /\ loop_exit = "running"
    /\ printed = {}
    /\ file = NoFile
    /\ save_calls = 0
    /\ save_arg = <<>>
    /\ pulled = <<>>
    /\ produced = <<>>
    /\ sentinels_got = <<>>

\* main has found total_pages = Len(listing) and calls get_book_urls
InitUrls ==
    /\ main_pc = "collect"
    /\ listing \in UNION {[1..n -> ListingPages] : n \in 1..MaxPages}
    /\ page = 1
    /\ book_urls = <<>>
    /\ doc = NoDoc
    /\ scraped = NotScraped
    /\ CrawlIdle

\* get_book_urls, lines 176-204: one iteration of 'for page in range(...)'
GetBookUrlsPage ==
    /\ main_pc = "collect"
    /\ page <= Len(listing)
    /\ book_urls' = book_urls \o PageBookUrls(page, listing[page])
    /\ page' = page + 1
    /\ UNCHANGED <<main_vars, worker_vars, num_workers, failable, listing, scrape_vars,
                   url_buf, url_pipe, result_queue>>

\* get_book_urls, line 206, and main, line 269: the list is returned
GetBookUrlsReturn ==
    /\ main_pc = "collect"
    /\ page > Len(listing)
    /\ main_pc' = "collected"
    /\ UNCHANGED <<env_vars, worker_vars, url_buf, url_pipe, result_queue, all_books,
                   crawled_count, failed_count, total_crawl_count, loop_exit, printed,
                   file, save_calls, save_arg, pulled>>

NextUrls == GetBookUrlsPage \/ GetBookUrlsReturn

SpecUrls == InitUrls /\ [][NextUrls]_vars

\* ------------------------------------------------- one scrape_book call
PriceChars == {"1", "5", ".", "L"}

ReviewChars == {"3", "-", "x", " "}

Elems(chars) == {Absent} \cup {Elem(t) : t \in SeqsUpTo(chars, MaxText)}

\* A worker calls scrape_book on the one URL of book_urls
InitScrape ==
    /\ main_pc = "scrape"
    /\ doc \in {ItemPage(ok, p, r) :
                  ok \in BOOLEAN, p \in Elems(PriceChars), r \in Elems(ReviewChars)}
    /\ scraped = NotScraped
    /\ book_urls = <<ItemURL(1)>>
    /\ listing = <<>>
    /\ page = 1
    /\ CrawlIdle

\* scrape_book, lines 43-121
ScrapeBook ==
    /\ main_pc = "scrape"
    /\ scraped = NotScraped
    /\ scraped' = scrape_book_page(book_urls[1], doc)
    /\ UNCHANGED <<main_vars, worker_vars, book_urls, num_workers, failable,
                   collect_vars, doc, url_buf, url_pipe, result_queue>>

NextScrape == ScrapeBook

SpecScrape == InitScrape /\ [][NextScrape]_vars

\* ------------------------------------------- one save_books call, by step
IsPrefix(p, q) == Len(p) <= Len(q) /\ SubSeq(q, 1, Len(p)) = p

\* The lists of distinct Records main can have accumulated
RecordLists ==
    {q \in SeqsUpTo({Record(ItemURL(i)) : i \in 1..MaxURLs}, MaxURLs) :
        \A i, j \in DOMAIN q : q[i] = q[j] => i = j}

\* main calls save_books(all_books, filename); the file is absent or holds
\* an earlier, complete checkpoint
InitSave ==
    /\ main_pc = "save_books"
    /\ book_urls = <<>>
    /\ listing = <<>>
    /\ page = 1
    /\ doc = NoDoc
    /\ scraped = NotScraped
    /\ num_workers = 1
    /\ failable = {}
    /\ url_buf = <<>>
    /\ url_pipe = <<>>
    /\ result_queue = <<>>
    /\ wpc = <<>>
    /\ wurl = <<>>
    /\ wexit = <<>>
    /\ all_books \in RecordLists
    /\ crawled_count = Len(all_books)
    /\ failed_count = 0
    /\ total_crawl_count = Len(all_books)
    /\ loop_exit = "normal"
    /\ printed = {}
    /\ file \in {NoFile} \cup
                {save_books(SubSeq(all_books, 1, k), NoFile, "ok") : k \in 0..Len(all_books)}
    /\ save_calls = 0
    /\ save_arg = all_books
    /\ pulled = all_books
    /\ produced = <<>>
    /\ sentinels_got = <<>>

\* save_books, line 220: open(filename, 'w') creates or truncates the file,
\* or raises and leaves it alone
SaveOpen ==
    /\ main_pc = "save_books"
    /\ \E outcome \in {"ok", "open_error"} :
         IF outcome = "ok"
         THEN /\ file' = save_books(save_arg, file, "write_error")
              /\ main_pc' = "writing"
         ELSE /\ file' = save_books(save_arg, file, "open_error")
              /\ main_pc' = "save_raised"
    /\ save_calls' = save_calls + 1
    /\ UNCHANGED <<env_vars, worker_vars, url_buf, url_pipe, result_queue, all_books,
                   crawled_count, failed_count, total_crawl_count, loop_exit, printed,
                   save_arg, pulled>>

\* save_books, line 221: json.dump and the close of the file write the
\* whole list, or raise and leave the file cut short
SaveDump ==
    /\ main_pc = "writing"
    /\ \E outcome \in {"ok", "write_error"} :
         /\ file' = save_books(save_arg, file, outcome)
         /\ main_pc' = IF SaveRaises(outcome) THEN "save_raised" ELSE "saved"
    /\ UNCHANGED <<env_vars, worker_vars, url_buf, url_pipe, result_queue, all_books,
                   crawled_count, failed_count, total_crawl_count, loop_exit, printed,
                   save_calls, save_arg, pulled>>

NextSave == SaveOpen \/ SaveDump

SpecSave == InitSave /\ [][NextSave]_vars

\* ------------------------------------------------------------------ Next
MainStep == Dispatch \/ AggGet \/ AggTimeout \/ AggEnd \/ JoinWorkers \/ FinalSave

WorkerStep == \E w \in 1..MaxWorkers :
    WorkerGetItem(w) \/ WorkerGetSentinel(w) \/ WorkerGetTimeout(w) \/ WorkerScrape(w)

Next == MainStep \/ Feed \/ WorkerStep

Spec == Init /\ [][Next]_vars

SpecK == InitK /\ [][Next]_vars

SpecKF == InitKF /\ [][Next]_vars

\* main's steps are taken whenever they can be (every wait of main is
\* bounded by a timeout); nothing is assumed of the workers or the feeder.
FairSpec == Spec /\ WF_vars(MainStep)

\* ================================================================ claims
Range(q) == {q[i] : i \in DOMAIN q}

\* url_queue as main and the workers see it: buffered and piped items
UrlQueue == url_pipe \o url_buf

ItemsQueued == {u \in Range(UrlQueue) : u # None}

SentinelsQueued == Cardinality({i \in DOMAIN UrlQueue : UrlQueue[i] = None})

Started == main_pc # "dispatch"

AllExited == Started /\ \A w \in DOMAIN wpc : wpc[w] = "exited"

RECURSIVE SumTo(_, _)
SumTo(f, n) == IF n = 0 THEN 0 ELSE f[n] + SumTo(f, n - 1)

\* Outcomes ever put on result_queue
TotalProduced == SumTo(produced, Len(book_urls))

Successes(q) == SelectSeq(q, LAMBDA x : x # None)

NoDuplicates(q) == \A i, j \in DOMAIN q : q[i] = q[j] => i = j

\* C1: whenever the aggregation loop ends because its condition became
\* false, crawled_count + failed_count equals the number of item URLs put
\* on url_queue, which is total_crawl_count.
C1_NormalEndCountsAll ==
    loop_exit = "normal" =>
        /\ total_crawl_count = Len(book_urls)
        /\ crawled_count + failed_count = total_crawl_count

C1_Witness ==
    /\ loop_exit = "normal"
    /\ num_workers = 2
    /\ crawled_count >= 1
    /\ failed_count >= 1
    /\ \E w \in DOMAIN wpc : wexit[w] = "exception"

\* C2 as stated: once the aggregation loop has ended, by whatever way, every
\* item URL has had exactly one outcome produced and consumed, no URL is
\* left in url_queue and no outcome is left in result_queue.
C2_EveryUrlProducedAndConsumed ==
    loop_exit # "running" =>
        /\ \A i \in DOMAIN book_urls : produced[i] = 1
        /\ Len(pulled) = Len(book_urls)
        /\ ItemsQueued = {}
        /\ result_queue = <<>>

\* C2 amended: no item URL ever has two outcomes, every outcome produced is
\* either still queued or was pulled once, and when the aggregation loop
\* ends normally every item URL has had exactly one outcome produced and
\* pulled, with no URL left in url_queue or in a worker and no outcome left
\* in result_queue.
C2_AtMostOnceAndAllAtNormalEnd ==
    /\ \A i \in DOMAIN book_urls : produced[i] <= 1
    /\ Len(pulled) + Len(result_queue) = TotalProduced
    /\ NoDuplicates(Successes(pulled \o result_queue))
    /\ loop_exit = "normal" =>
          /\ \A i \in DOMAIN book_urls : produced[i] = 1
          /\ Len(pulled) = Len(book_urls)
          /\ ItemsQueued = {}
          /\ \A w \in DOMAIN wpc : wurl[w] = None
          /\ result_queue = <<>>

C2_Witness ==
    /\ loop_exit = "normal"
    /\ Len(book_urls) = MaxURLs
    /\ num_workers = 2
    /\ \E i \in DOMAIN pulled : pulled[i] = None
    /\ \E i \in DOMAIN pulled : pulled[i] # None

\* C3: a worker leaves its loop only by dequeuing a stop request; a get
\* that times out does not end the worker.
C3_ExitOnlyBySentinel ==
    \A w \in DOMAIN wpc : wpc[w] = "exited" => wexit[w] = "sentinel"

\* C4: exactly num_workers stop requests follow the item URLs on url_queue,
\* and once the workers are gone each has dequeued exactly one of them and
\* none is left on the queue.
C4_OneSentinelPerWorker ==
    /\ Started => SentinelsQueued + SumTo(sentinels_got, num_workers) = num_workers
    /\ \A w \in DOMAIN wpc : sentinels_got[w] <= 1
    /\ AllExited =>
          /\ \A w \in DOMAIN wpc : sentinels_got[w] = 1
          /\ SentinelsQueued = 0

\* C5: a run whose aggregation was cut short by a result_queue timeout is
\* not reported with the lines of a completed run.
C5_IncompleteNotReportedComplete ==
    (loop_exit = "timeout" /\ crawled_count + failed_count < total_crawl_count) =>
        /\ MsgComplete \notin printed
        /\ MsgSuccess \notin printed

\* C6: an auto-save that raises inside the aggregation loop does not end
\* the loop: the loop is left only with every outcome counted.
C6_FailedCheckpointKeepsAggregating ==
    loop_exit = "save_error" => crawled_count + failed_count = total_crawl_count

\* C7: every step in which a worker finishes a scrape, failed or not, puts
\* exactly one outcome for the URL it held at the end of result_queue (None
\* for a failed scrape) and returns the worker to its get; it leaves the
\* outcomes already queued, the other workers and main as they were, and a
\* worker never exits from anywhere but its get.
C7_FailureIsOneOutcomeAndWorkerGoesOn ==
    [][\A w \in DOMAIN wpc :
          /\ (wpc[w] = "scrape" /\ wpc'[w] # "scrape") =>
                /\ wpc'[w] = "get"
                /\ wexit'[w] = "running"
                /\ Len(result_queue') = Len(result_queue) + 1
                /\ SubSeq(result_queue', 1, Len(result_queue)) = result_queue
                /\ result_queue'[Len(result_queue')] \in {None, Record(wurl[w])}
                /\ produced' = [produced EXCEPT ![wurl[w].item] = @ + 1]
                /\ \A v \in DOMAIN wpc \ {w} : wpc'[v] = wpc[v] /\ wurl'[v] = wurl[v]
                /\ UNCHANGED main_vars
          /\ (wpc[w] # "exited" /\ wpc'[w] = "exited") => wpc[w] = "get"
      ]_vars

C7_Witness ==
    /\ main_pc = "agg"
    /\ \E i \in DOMAIN result_queue : result_queue[i] = None
    /\ \E w \in DOMAIN wpc : wpc[w] = "scrape"
    /\ \E w \in DOMAIN wpc : wpc[w] = "get"
    /\ \A w \in DOMAIN wpc : wpc[w] # "exited"

\* C8: the step that leaves the final save, after a normal or a timed-out
\* aggregation, is one more invocation of save_books on all_books; when
\* main has returned, the file holds exactly all_books, which is the
\* sequence of the dicts pulled, in the order pulled, with nothing for a
\* pulled None.
C8_FinalCheckpointHoldsAccumulated ==
    [][/\ (main_pc = "final" /\ main_pc' # "final") =>
              /\ save_calls' = save_calls + 1
              /\ save_arg' = all_books
       /\ main_pc' = "done" =>
              /\ file' = [exists |-> TRUE, complete |-> TRUE, books |-> all_books']
              /\ all_books' = Successes(pulled')
              /\ crawled_count' = Len(all_books')
              /\ failed_count' = Len(pulled') - Len(all_books')
      ]_vars

C8_Witness ==
    /\ main_pc = "done"
    /\ loop_exit = "timeout"
    /\ Len(pulled) = 2
    /\ pulled[1] = None
    /\ file.books = <<pulled[2]>>
    /\ failed_count = 1

\* C9: every step that brings crawled_count to a positive multiple of K
\* invokes save_books with the whole of all_books, in that same loop
\* iteration, so before the next result is pulled; a write that succeeds
\* leaves exactly all_books in the file.
C9_CheckpointEveryKWithFullSequence ==
    [][(crawled_count' # crawled_count /\ crawled_count' % K = 0) =>
          /\ save_calls' = save_calls + 1
          /\ save_arg' = all_books'
          /\ Len(save_arg') = crawled_count'
          /\ (main_pc' = "agg" =>
                file' = [exists |-> TRUE, complete |-> TRUE, books |-> all_books'])
      ]_vars

C9_Witness ==
    /\ main_pc = "agg"
    /\ crawled_count = 2 * K
    /\ save_calls = 2
    /\ Len(save_arg) = 2 * K
    /\ file.complete
    /\ Len(file.books) = 2 * K

\* C10: main terminates.  Under fairness of main's own steps alone (nothing
\* is assumed of the workers, which may never produce an outcome and never
\* exit), main eventually makes its final save_books call and leaves: it
\* returns, or the error of that final write propagates out of it.
C10_MainTerminates ==
    <>(main_pc \in {"done", "raised"} /\ save_calls >= 1)

C10_Witness ==
    /\ main_pc = "done"
    /\ loop_exit = "timeout"
    /\ \E w \in DOMAIN wpc : wpc[w] = "scrape"
    /\ \E w \in DOMAIN wpc : wpc[w] = "get"

\* A listing page failed: its fetch raised or one of its containers did
PageFailed(content) ==
    \/ content = FetchError
    \/ \E i \in DOMAIN content.pods : content.pods[i] = BrokenPod

\* The URLs of pages 1..n that did not fail, in page order then in-page order
RECURSIVE UrlsOfGoodPages(_, _)
UrlsOfGoodPages(pages, n) ==
    IF n = 0 THEN <<>>
    ELSE UrlsOfGoodPages(pages, n - 1) \o
         (IF PageFailed(pages[n]) THEN <<>>
          ELSE [i \in DOMAIN pages[n].pods |-> urljoin(PageUrl(n), pages[n].pods[i].href)])

\* C11: what get_book_urls returns is exactly the URLs of the listing pages
\* that did not fail, in page order then in-page order; a page that failed
\* at any point, also after some of its links were read, contributes none.
C11_FailedPageContributesNothing ==
    main_pc = "collected" => book_urls = UrlsOfGoodPages(listing, Len(listing))

\* C12: on a page that was fetched and has a price element, the price is
\* the decimal read from the digits and points of its text when they form
\* one, and 0.0 when nothing is left or what is left is no decimal; the
\* price never makes scrape_book return None.
C12_UnparsablePriceIsZero ==
    (scraped # NotScraped /\ doc.ok /\ doc.price.present) =>
        /\ scraped # None
        /\ scraped.price =
              (IF Cleaned(doc.price.text) = <<>> \/ float(Cleaned(doc.price.text)) = ValueError
               THEN Zero ELSE float(Cleaned(doc.price.text)))

\* C14: the reviews field of every dict scrape_book returns is a
\* non-negative integer.
C14_ReviewsNonNegative ==
    (scraped # NotScraped /\ scraped # None) => scraped.reviews >= 0

\* C13: at every point during and after a save_books call, what a reader
\* finds at the destination is the earlier checkpoint, complete (or no file
\* when there was none), or the new one, complete: never a file cut short.
C13_DestinationNeverCutShort ==
    \/ ~file.exists
    \/ file.complete /\ IsPrefix(file.books, save_arg)

\* C15: the counts and the accumulated list change only in a step of the
\* aggregation loop that pulls a result, and such a step leaves the workers
\* alone; every step of a worker (get, scrape and put, exit) leaves all of
\* main's state unchanged and touches nothing but the two queues.
C15_CrawlStateOnlyChangedByAggregator ==
    [][/\ (<<all_books, crawled_count, failed_count>>' #
              <<all_books, crawled_count, failed_count>>) =>
              /\ main_pc = "agg"
              /\ result_queue # <<>>
              /\ pulled' = Append(pulled, Head(result_queue))
              /\ UNCHANGED worker_vars
       /\ (Started /\ worker_vars' # worker_vars) =>
              /\ UNCHANGED main_vars
              /\ UNCHANGED <<env_vars, url_buf>>
      ]_vars

C15_Witness ==
    /\ main_pc = "agg"
    /\ crawled_count >= 1
    /\ failed_count >= 1
    /\ \E w \in DOMAIN wpc : wpc[w] = "scrape"
    /\ \E w \in DOMAIN wpc : wpc[w] = "exited"

\* C16: throughout the aggregation loop (and after it) the accumulated list
\* is as long as crawled_count, crawled_count + failed_count is the number
\* of outcomes pulled so far, and that number never exceeds
\* total_crawl_count.
C16_CountsMatchPulled ==
    Started =>
        /\ Len(all_books) = crawled_count
        /\ crawled_count + failed_count = Len(pulled)
        /\ crawled_count + failed_count <= total_crawl_count

C16_Witness ==
    /\ main_pc = "agg"
    /\ Len(pulled) = 2
    /\ crawled_count = 1
    /\ failed_count = 1
    /\ total_crawl_count = MaxURLs
    /\ result_queue # <<>>

\* C17: url_queue holds its item URLs before its stop requests, so a worker
\* dequeues a stop request only when no item URL is left in the queue, and
\* once a worker has exited on a stop request every item URL has been
\* dequeued.
C17_NoSentinelBeforeLastItem ==
    /\ \A i, j \in DOMAIN UrlQueue : (i < j /\ UrlQueue[i] = None) => UrlQueue[j] = None
    /\ \A w \in DOMAIN wpc :
          (sentinels_got[w] > 0 \/ wexit[w] = "sentinel") => ItemsQueued = {}

C17_Witness ==
    /\ Len(book_urls) = MaxURLs
    /\ \E w \in DOMAIN wpc : wexit[w] = "sentinel"
    /\ \E w \in DOMAIN wpc : wpc[w] = "scrape" /\ wurl[w] = ItemURL(MaxURLs)
    /\ SentinelsQueued = 1

\* C18: the auto-save condition is evaluated after every pulled result: a
\* step of the loop that pulls a result calls save_books exactly when the
\* count of successes after the step is a positive multiple of K; so a
\* failure pulled while crawled_count is a positive multiple of K calls
\* save_books once more with the same records, and no result pulled while
\* crawled_count stays 0 calls it.
C18_AutoSaveTestedAfterEveryResult ==
    [][(main_pc = "agg" /\ pulled' # pulled) =>
         LET result == Head(result_queue)
             saved == save_calls' = save_calls + 1 /\ save_arg' = all_books'
         IN  /\ saved <=> (crawled_count' > 0 /\ crawled_count' % K = 0)
             /\ ~saved => UNCHANGED <<save_calls, save_arg, file>>
             /\ (result = None /\ crawled_count > 0 /\ crawled_count % K = 0) =>
                    saved /\ all_books' = all_books /\ save_arg' = save_arg
             /\ crawled_count' = 0 => save_calls' = 0
      ]_vars

C18_Witness ==
    /\ Len(pulled) = Len(book_urls)
    /\ pulled[1] = None
    /\ pulled[Len(pulled)] = None
    /\ crawled_count = 2 * K
    /\ save_calls = 3
    /\ save_arg = all_books
    /\ file.complete /\ file.books = all_books
    /\ main_pc = "agg"

\* C19: all_books only grows by appended records; whenever the file holds a
\* completed write, its content is a prefix of the current all_books; and
\* a completed write that replaces a completed write keeps every record
\* already in the file, in place.
C19_CompletedWritesOnlyGrow ==
    [][/\ IsPrefix(all_books, all_books')
       /\ file'.complete => IsPrefix(file'.books, all_books')
       /\ (file.complete /\ file'.complete) => IsPrefix(file.books, file'.books)
      ]_vars

C19_Witness ==
    /\ file.complete
    /\ save_calls = 2
    /\ Len(file.books) = 2 * K
    /\ Len(all_books) = 2 * K + 1
    /\ failed_count = 1
    /\ IsPrefix(file.books, all_books)

\* C20: with zero item URLs the loop pulls nothing and does not time out,
\* every worker receives a stop request and nothing else and exits on it
\* without scraping, and the final save is given the empty list with both
\* counts 0.
C20_NoUrlsWorkersExitBySentinel ==
    (Started /\ Len(book_urls) = 0) =>
        /\ pulled = <<>>
        /\ loop_exit # "timeout"
        /\ \A w \in DOMAIN wpc :
              /\ wpc[w] # "scrape"
              /\ wpc[w] = "exited" => (sentinels_got[w] = 1 /\ wexit[w] = "sentinel")
        /\ main_pc = "done" =>
              /\ save_arg = <<>>
              /\ file = [exists |-> TRUE, complete |-> TRUE, books |-> <<>>]
              /\ crawled_count = 0 /\ failed_count = 0

\* The part of C20 about main alone
C20_NoUrlsMainPart ==
    (Started /\ Len(book_urls) = 0) =>
        /\ pulled = <<>>
        /\ loop_exit # "timeout"
        /\ \A w \in DOMAIN wpc : wpc[w] # "scrape"
        /\ main_pc = "done" =>
              /\ save_arg = <<>>
              /\ file = [exists |-> TRUE, complete |-> TRUE, books |-> <<>>]
              /\ crawled_count = 0 /\ failed_count = 0

====
